---- MODULE Spec2Model ----
(***************************************************************************)
(* Flood-routing mesh of the Mesh-Forest-Fire repository: relay nodes      *)
(* (mesh_relay_node.py), sentry nodes (mesh_sentry_node.py) and the base   *)
(* station (mesh_base_station.py, mesh_base_station_mongo_direct.py).      *)
(*                                                                         *)
(* Time is real time on a grid of TimeStep seconds.  The clocks of the     *)
(* nodes advance together, and a node only ever compares two readings of   *)
(* its own clock, so time.time() is modelled by the one variable clock.    *)
(* A Python dict is a function whose DOMAIN is the set of keys.            *)
(***************************************************************************)
EXTENDS Integers, Sequences, FiniteSets, TLC

\* ------------------------------------------------------------------ bounds
MaxTime == 90
TimeStep == 30
MaxMsgs == 2
MaxOriginations == 1
NumCallers == 2
MaxTTL == 2
MaxQueue == 2
RiskScale == 100
MaxHops == 3
MaxAlertThreads == 2
MaxIncidents == 2

\* ------------------------------------------------- constants of the program
SEEN_EXPIRY_SEC == 60
TTL_DEFAULT == 8
ALERT_COOLDOWN_SECONDS == 60

Relays == {"Relay_001", "Relay_002"}
Sentries == {"Sentry_001"}
BASE_NODE_ID == "Base_001"

\* the relay whose cache the concurrent callers of should_accept work on
CacheNode == "Relay_001"

MsgIds == 1..MaxMsgs
Callers == 1..NumCallers

VARIABLES
    clock,           \* value of time.time()
    seen_messages,   \* relay -> dict msg_id -> timestamp
    seen_lock,       \* relay -> "free" or the holder of seen_lock
    cleanup_pc,      \* relay -> position of the cleanup_seen_loop thread
    cleanup_cutoff,  \* relay -> local variable cutoff of cleanup_seen_loop
    thr_pc,          \* caller -> position inside should_accept
    thr_id,          \* caller -> argument msg_id
    thr_ret,         \* caller -> "none", or the value returned last
    h_live,          \* relay -> id -> True returns since the last eviction
    h_total,         \* relay -> id -> True returns ever
    h_last,          \* relay -> dict id -> time of the last True return
    h_evicted,       \* relay -> ids swept when expired, not yet asked again
    next_id,         \* number of ids uuid.uuid4() has handed out
    sentry_pc,       \* sentry -> "run" or "crashed"
    inbox,           \* relay -> datagrams waiting in its broadcast socket
    listen_pc,       \* relay -> position of main / listen_loop / handle_message
    listen_fwd,      \* relay -> local variable fwd of handle_message
    uplink_q,        \* connections waiting at the base station's socket
    h_orig,          \* dict id -> the message as send_new built it
    h_rebroadcasts,  \* relay -> id -> send_raw calls made by handle_message
    h_uplinks,       \* relay -> id -> forward_to_laptop calls made by handle_message
    h_dropped,       \* the last datagram a listen loop dropped: a malformed one, or
                     \* the id of a duplicate
    last_alert_times,\* base station: dict node_id -> timestamp
    h_last_true,     \* dict node_id -> time of the last should_alert call that returned True
    h_base_last,     \* what the base station did with the last connection
    h_content,       \* dict message -> content of the incident submitted when it was announced
    alert_threads,   \* base station: alert_thread threads started and still running
    base_variant,    \* "api" (mesh_base_station) or "mongo" (mesh_base_station_mongo_direct)
    mongo_incidents, \* the incidents collection: dict incidentId -> document
    base_pc,         \* base station: "accept", or "handling" an accepted connection
    open_conns,      \* base station: connections accepted and not closed
    run2_alert_times,\* last_alert_times of a second run of the base station
    pair_ret,        \* what the same should_alert call returned in the two runs
    sev_risk,        \* a risk score, in units of 1/RiskScale
    sev_out          \* the severity each base station derives from sev_risk

cacheVars == <<seen_messages, seen_lock, cleanup_pc, cleanup_cutoff>>
thrVars == <<thr_pc, thr_id, thr_ret>>
histCacheVars == <<h_live, h_total, h_last, h_evicted>>

meshVars == <<next_id, sentry_pc, inbox, listen_pc, listen_fwd, uplink_q>>
histMeshVars == <<h_orig, h_rebroadcasts, h_uplinks, h_dropped>>

baseVars == <<last_alert_times, h_last_true, h_base_last, h_content, alert_threads,
             base_variant, mongo_incidents, base_pc, open_conns>>
pairVars == <<run2_alert_times, pair_ret>>
sevVars == <<sev_risk, sev_out>>
relayVars == <<cacheVars, thrVars, histCacheVars, next_id, sentry_pc, inbox,
               listen_pc, listen_fwd, histMeshVars>>

vars == <<clock, cacheVars, thrVars, histCacheVars, meshVars, histMeshVars,
          baseVars, pairVars, sevVars>>

\* ------------------------------------------------------------------ helpers
\* d[k] = v on a dict
DictSet(d, k, v) == [x \in (DOMAIN d) \cup {k} |-> IF x = k THEN v ELSE d[x]]

\* del d[k] for every k in ks
DictDel(d, ks) == [x \in (DOMAIN d) \ ks |-> d[x]]

EmptyDict == [x \in {} |-> 0]

\* now(): time.time() read on node n
now(n) == clock

\* -------------------------------------------------------------------- clock
Tick ==
    /\ UNCHANGED <<baseVars, pairVars, sevVars>>
    /\ clock + TimeStep <= MaxTime
    /\ clock' = clock + TimeStep
    /\ UNCHANGED <<cacheVars, thrVars, histCacheVars, meshVars, histMeshVars>>

\* the values the clock takes
ClockReadings == {t \in 0..MaxTime : t % TimeStep = 0}

\* ------------------------------------------------------- seen_lock (mutex)
LockFreeNoMutex(n) == TRUE

\* `with seen_lock:` can be entered only while nobody holds the lock
LockFree(n) == seen_lock[n] = "free"

\* ------------------------------------------------------------ should_accept
\* bookkeeping of a should_accept(id) call on relay n that returns r
HistDecision(n, id, r) ==
    /\ h_live' = [h_live EXCEPT ![n][id] = IF r THEN @ + 1 ELSE @]
    /\ h_total' = [h_total EXCEPT ![n][id] = IF r THEN @ + 1 ELSE @]
    /\ h_last' = [h_last EXCEPT ![n] = IF r THEN DictSet(@, id, now(n)) ELSE @]
    /\ h_evicted' = [h_evicted EXCEPT ![n] = @ \ {id}]

\* `msg_id in seen_messages`
InSeen(n, id) == id \in DOMAIN seen_messages[n]

\* `seen_messages[msg_id] = now()`
RecordSeen(n, id) == [seen_messages EXCEPT ![n] = DictSet(@, id, now(n))]

\* a thread enters should_accept(id)
CallShouldAccept(t, id) ==
    /\ UNCHANGED <<baseVars, pairVars, sevVars>>
    /\ thr_pc[t] = "idle"
    /\ thr_pc' = [thr_pc EXCEPT ![t] = "acquire"]
    /\ thr_id' = [thr_id EXCEPT ![t] = id]
    /\ thr_ret' = [thr_ret EXCEPT ![t] = "none"]
    /\ UNCHANGED <<clock, cacheVars, histCacheVars>>
    /\ UNCHANGED <<meshVars, histMeshVars>>

\* `with seen_lock:` entered
AcquireSeenLock(t) ==
    /\ UNCHANGED <<baseVars, pairVars, sevVars>>
    /\ thr_pc[t] = "acquire"
    /\ LockFree(CacheNode)
    /\ seen_lock' = [seen_lock EXCEPT ![CacheNode] = "caller"]
    /\ thr_pc' = [thr_pc EXCEPT ![t] = "check"]
    /\ UNCHANGED <<clock, seen_messages, cleanup_pc, cleanup_cutoff,
                   thr_id, thr_ret, histCacheVars>>
    /\ UNCHANGED <<meshVars, histMeshVars>>

\* `if msg_id in seen_messages: return False`
CheckSeen(t) ==
    /\ UNCHANGED <<baseVars, pairVars, sevVars>>
    /\ thr_pc[t] = "check"
    /\ IF InSeen(CacheNode, thr_id[t])
       THEN /\ thr_ret' = [thr_ret EXCEPT ![t] = "False"]
            /\ thr_pc' = [thr_pc EXCEPT ![t] = "release"]
            /\ HistDecision(CacheNode, thr_id[t], FALSE)
       ELSE /\ thr_pc' = [thr_pc EXCEPT ![t] = "insert"]
            /\ UNCHANGED <<thr_ret, histCacheVars>>
    /\ UNCHANGED <<clock, cacheVars, thr_id>>
    /\ UNCHANGED <<meshVars, histMeshVars>>

\* `seen_messages[msg_id] = now(); return True`
InsertSeen(t) ==
    /\ UNCHANGED <<baseVars, pairVars, sevVars>>
    /\ thr_pc[t] = "insert"
    /\ seen_messages' = RecordSeen(CacheNode, thr_id[t])
    /\ thr_ret' = [thr_ret EXCEPT ![t] = "True"]
    /\ thr_pc' = [thr_pc EXCEPT ![t] = "release"]
    /\ HistDecision(CacheNode, thr_id[t], TRUE)
    /\ UNCHANGED <<clock, seen_lock, cleanup_pc, cleanup_cutoff, thr_id>>
    /\ UNCHANGED <<meshVars, histMeshVars>>

\* leaving the `with` block on return
ReleaseSeenLock(t) ==
    /\ UNCHANGED <<baseVars, pairVars, sevVars>>
    /\ thr_pc[t] = "release"
    /\ seen_lock' = [seen_lock EXCEPT ![CacheNode] = "free"]
    /\ thr_pc' = [thr_pc EXCEPT ![t] = "idle"]
    /\ UNCHANGED <<clock, seen_messages, cleanup_pc, cleanup_cutoff,
                   thr_id, thr_ret, histCacheVars>>
    /\ UNCHANGED <<meshVars, histMeshVars>>

\* -------------------------------------------------------- cleanup_seen_loop
OldKeysLate(n) ==
    {mid \in DOMAIN seen_messages[n] :
        seen_messages[n][mid] < cleanup_cutoff[n] - TimeStep}

OldKeysInclusive(n) ==
    {mid \in DOMAIN seen_messages[n] : seen_messages[n][mid] <= cleanup_cutoff[n]}

\* `old_keys = [mid for mid, ts in seen_messages.items() if ts < cutoff]`
OldKeys(n) ==
    {mid \in DOMAIN seen_messages[n] : seen_messages[n][mid] < cleanup_cutoff[n]}

\* ids whose entry is older than the expiry window at the time the sweep
\* read the clock (cutoff = now - SEEN_EXPIRY_SEC)
ExpiredAtSweep(n) ==
    {mid \in DOMAIN seen_messages[n] :
        (cleanup_cutoff[n] + SEEN_EXPIRY_SEC) - seen_messages[n][mid] > SEEN_EXPIRY_SEC}

\* `cutoff = now() - SEEN_EXPIRY_SEC`
CleanupCutoff(n) ==
    /\ UNCHANGED <<baseVars, pairVars, sevVars>>
    /\ cleanup_pc[n] = "cutoff"
    /\ cleanup_cutoff' = [cleanup_cutoff EXCEPT ![n] = now(n) - SEEN_EXPIRY_SEC]
    /\ cleanup_pc' = [cleanup_pc EXCEPT ![n] = "acquire"]
    /\ UNCHANGED <<clock, seen_messages, seen_lock, thrVars, histCacheVars>>
    /\ UNCHANGED <<meshVars, histMeshVars>>

\* `with seen_lock:` entered by the cleanup thread
CleanupAcquire(n) ==
    /\ UNCHANGED <<baseVars, pairVars, sevVars>>
    /\ cleanup_pc[n] = "acquire"
    /\ LockFree(n)
    /\ seen_lock' = [seen_lock EXCEPT ![n] = "cleanup"]
    /\ cleanup_pc' = [cleanup_pc EXCEPT ![n] = "sweep"]
    /\ UNCHANGED <<clock, seen_messages, cleanup_cutoff, thrVars, histCacheVars>>
    /\ UNCHANGED <<meshVars, histMeshVars>>

CleanupSweepOnce(n) ==
    /\ UNCHANGED <<baseVars, pairVars, sevVars>>
    /\ cleanup_pc[n] = "sweep"
    /\ seen_messages' = [seen_messages EXCEPT ![n] = DictDel(@, OldKeys(n))]
    /\ seen_lock' = [seen_lock EXCEPT ![n] = "free"]
    /\ cleanup_pc' = [cleanup_pc EXCEPT ![n] = "stopped"]
    /\ h_live' = [h_live EXCEPT ![n] =
                     [id \in MsgIds |-> IF id \in OldKeys(n) THEN 0 ELSE @[id]]]
    /\ h_evicted' = [h_evicted EXCEPT ![n] = @ \cup ExpiredAtSweep(n)]
    /\ UNCHANGED <<clock, cleanup_cutoff, thrVars, h_total, h_last>>
    /\ UNCHANGED <<meshVars, histMeshVars>>

\* the sweep: delete old_keys, leave the `with` block, time.sleep(5), and
\* `while True` starts the next pass
CleanupSweep(n) ==
    /\ UNCHANGED <<baseVars, pairVars, sevVars>>
    /\ cleanup_pc[n] = "sweep"
    /\ seen_messages' = [seen_messages EXCEPT ![n] = DictDel(@, OldKeys(n))]
    /\ seen_lock' = [seen_lock EXCEPT ![n] = "free"]
    /\ cleanup_pc' = [cleanup_pc EXCEPT ![n] = "cutoff"]
    /\ h_live' = [h_live EXCEPT ![n] =
                     [id \in MsgIds |-> IF id \in OldKeys(n) THEN 0 ELSE @[id]]]
    /\ h_evicted' = [h_evicted EXCEPT ![n] = @ \cup ExpiredAtSweep(n)]
    /\ UNCHANGED <<clock, cleanup_cutoff, thrVars, h_total, h_last>>
    /\ UNCHANGED <<meshVars, histMeshVars>>

\* one pass of cleanup_seen_loop taken as a whole on a relay whose receive
\* thread is the only other user of seen_lock: the clock was read as t, at or
\* before the moment the lock is obtained, and the entries older than
\* t - SEEN_EXPIRY_SEC are deleted
CleanupPass(n, t) ==
    /\ UNCHANGED <<baseVars, pairVars, sevVars>>
    /\ cleanup_pc[n] = "cutoff"
    /\ LockFree(n)
    /\ t <= now(n)
    /\ LET old == {mid \in DOMAIN seen_messages[n] :
                      seen_messages[n][mid] < t - SEEN_EXPIRY_SEC}
       IN /\ seen_messages' = [seen_messages EXCEPT ![n] = DictDel(@, old)]
          /\ h_live' = [h_live EXCEPT ![n] =
                           [id \in MsgIds |-> IF id \in old THEN 0 ELSE @[id]]]
          /\ h_evicted' = [h_evicted EXCEPT ![n] = @ \cup old]
    /\ UNCHANGED <<clock, seen_lock, cleanup_pc, cleanup_cutoff, thrVars,
                   h_total, h_last, meshVars, histMeshVars>>

\* ------------------------------------------------------------ mesh messages
\* msg_dict.get(k, default); a key holding JSON null reads like a missing key
Get(m, k, default) == IF k \in DOMAIN m THEN m[k] ELSE default

NODE_LOCATION == [lat |-> 492827, lon |-> -1231207]

HelloPayload == [type |-> "hello"]

\* the payload built by the sentry: "risk" carries is_risk, the boolean
\* result of predict_risk, which is True whenever an alert is sent; Python's
\* True is the number 1, that is RiskScale units
SentryAlertPayload == [type |-> "alert", risk |-> RiskScale]

new_message_no_route(n, id, payload, ttl) ==
    [id |-> id, src |-> n, src_location |-> NODE_LOCATION, ttl |-> ttl,
     ts |-> now(n), route |-> <<>>, payload |-> payload]

\* new_message: id stands for str(uuid.uuid4())
new_message(n, id, payload, ttl) ==
    [id |-> id, src |-> n, src_location |-> NODE_LOCATION, ttl |-> ttl,
     ts |-> now(n), route |-> <<n>>, payload |-> payload]

MalformedIdOnly(m) == Get(m, "id", 0) = 0

\* `if not msg_id or src is None`: an id of 0 stands for every falsy id
Malformed(m) == Get(m, "id", 0) = 0 \/ "src" \notin DOMAIN m

IsTerminalIfTtlGiven(m) == "ttl" \in DOMAIN m /\ m.ttl <= 0

\* `ttl = msg_dict.get("ttl", 0)` ... `if ttl <= 0`
IsTerminal(m) == Get(m, "ttl", 0) <= 0

FwdTtlKept(m) == Get(m, "ttl", 0)

\* `fwd["ttl"] = ttl - 1`
FwdTtl(m) == Get(m, "ttl", 0) - 1

FwdRoutePrepend(n, m) == <<n>> \o Get(m, "route", <<>>)

FwdRouteOwnOnly(n, m) == <<n>>

\* `route = fwd.get("route", []); route = route + [NODE_ID]`
FwdRoute(n, m) == Get(m, "route", <<>>) \o <<n>>

FwdAsOwnMessage(n, m) ==
    [k \in (DOMAIN m) \cup {"ttl", "route"} |->
        IF k = "ttl" THEN FwdTtl(m)
        ELSE IF k = "route" THEN FwdRoute(n, m)
        ELSE IF k = "src" THEN n
        ELSE m[k]]

\* the copy handle_message rebroadcasts: dict(msg_dict) with ttl and route set
Fwd(n, m) ==
    [k \in (DOMAIN m) \cup {"ttl", "route"} |->
        IF k = "ttl" THEN FwdTtl(m)
        ELSE IF k = "route" THEN FwdRoute(n, m)
        ELSE m[k]]

\* send_raw that succeeds: the datagram reaches the broadcast socket of every
\* relay of the segment, the sender's own included
Broadcast(m) == [r \in Relays |-> inbox[r] \cup {m}]

\* ------------------------------------------------------------ sentry (main)
\* one poll cycle of the sentry with is_risk true: send_new(sock, payload);
\* an exception of sock.sendto leaves main
SentryAlert(s, bOk) ==
    /\ UNCHANGED <<baseVars, pairVars, sevVars>>
    /\ sentry_pc[s] = "run"
    /\ next_id < MaxOriginations /\ next_id < MaxMsgs
    /\ next_id' = next_id + 1
    /\ LET msg == new_message(s, next_id + 1, SentryAlertPayload, TTL_DEFAULT)
       IN /\ h_orig' = DictSet(h_orig, next_id + 1, msg)
          /\ IF bOk
             THEN /\ inbox' = Broadcast(msg)
                  /\ UNCHANGED sentry_pc
             ELSE /\ sentry_pc' = [sentry_pc EXCEPT ![s] = "crashed"]
                  /\ UNCHANGED inbox
    /\ UNCHANGED <<clock, cacheVars, thrVars, histCacheVars, listen_pc,
                   listen_fwd, uplink_q, h_rebroadcasts, h_uplinks, h_dropped>>

\* send_new(sock, payload, ttl) called by application code with its own ttl
SendNew(s, payload, ttl) ==
    /\ UNCHANGED <<baseVars, pairVars, sevVars>>
    /\ sentry_pc[s] = "run"
    /\ next_id < MaxOriginations /\ next_id < MaxMsgs
    /\ next_id' = next_id + 1
    /\ LET msg == new_message(s, next_id + 1, payload, ttl)
       IN /\ h_orig' = DictSet(h_orig, next_id + 1, msg)
          /\ inbox' = Broadcast(msg)
    /\ UNCHANGED <<clock, cacheVars, thrVars, histCacheVars, sentry_pc,
                   listen_pc, listen_fwd, uplink_q, h_rebroadcasts, h_uplinks, h_dropped>>

\* --------------------------------------------- relay: main with a test mode
\* the fixed ids "test-hello-msg" and "test-alert-msg" of the messages main
\* hands to forward_to_laptop; no uuid4 id equals them
TestHelloMsgId == MaxMsgs + 1
TestAlertMsgId == MaxMsgs + 2

\* the payload of `test-alert` in mesh_relay_node.main: risk 0.85
TestAlertPayload == [type |-> "alert", risk |-> (85 * RiskScale) \div 100]

\* the dict literal main passes to forward_to_laptop
TestMsg(n, id, payload) ==
    [id |-> id, src |-> n, src_location |-> NODE_LOCATION, ttl |-> TTL_DEFAULT,
     ts |-> now(n), route |-> <<n>>, payload |-> payload]

\* main started with `test-hello`: send_new, then forward_to_laptop, then
\* listen_loop; an exception of sock.sendto in send_new ends the process
RelayTestHello(n, bOk, uOk) ==
    /\ UNCHANGED <<baseVars, pairVars, sevVars>>
    /\ listen_pc[n] = "main"
    /\ next_id < MaxOriginations /\ next_id < MaxMsgs
    /\ uOk => bOk /\ Len(uplink_q) < MaxQueue
    /\ next_id' = next_id + 1
    /\ LET msg == new_message(n, next_id + 1, HelloPayload, TTL_DEFAULT)
       IN /\ h_orig' = DictSet(h_orig, next_id + 1, msg)
          /\ inbox' = IF bOk THEN Broadcast(msg) ELSE inbox
    /\ uplink_q' = IF uOk
                   THEN Append(uplink_q, TestMsg(n, TestHelloMsgId, HelloPayload))
                   ELSE uplink_q
    /\ listen_pc' = [listen_pc EXCEPT ![n] = IF bOk THEN "recv" ELSE "crashed"]
    /\ UNCHANGED <<clock, cacheVars, thrVars, histCacheVars, sentry_pc,
                   listen_fwd, h_rebroadcasts, h_uplinks, h_dropped>>

\* main started with `test-alert`: forward_to_laptop, then send_new, then
\* listen_loop
RelayTestAlert(n, uOk, bOk) ==
    /\ UNCHANGED <<baseVars, pairVars, sevVars>>
    /\ listen_pc[n] = "main"
    /\ next_id < MaxOriginations /\ next_id < MaxMsgs
    /\ uOk => Len(uplink_q) < MaxQueue
    /\ uplink_q' = IF uOk
                   THEN Append(uplink_q, TestMsg(n, TestAlertMsgId, TestAlertPayload))
                   ELSE uplink_q
    /\ next_id' = next_id + 1
    /\ LET msg == new_message(n, next_id + 1, TestAlertPayload, TTL_DEFAULT)
       IN /\ h_orig' = DictSet(h_orig, next_id + 1, msg)
          /\ inbox' = IF bOk THEN Broadcast(msg) ELSE inbox
    /\ listen_pc' = [listen_pc EXCEPT ![n] = IF bOk THEN "recv" ELSE "crashed"]
    /\ UNCHANGED <<clock, cacheVars, thrVars, histCacheVars, sentry_pc,
                   listen_fwd, h_rebroadcasts, h_uplinks, h_dropped>>

\* ------------------------------------------- relay: listen_loop, one datagram
ShouldAcceptAlways(n, id) == TRUE

SeenRefreshedOnDuplicate(n, id) == [seen_messages EXCEPT ![n] = DictSet(@, id, now(n))]

\* seen_messages after `if msg_id in seen_messages: return False`
SeenAfterDuplicate(n, id) == seen_messages

\* the value should_accept(id) returns on relay n
ShouldAccept(n, id) == ~InSeen(n, id)

\* json.loads(data.decode()) returns a dict: bytes that are not JSON raise
\* JSONDecodeError (`continue`), and JSON that is not an object makes
\* msg_dict.get raise inside handle_message (`except Exception`, sleep 0.5)
IsJsonObject(d) == "wire" \notin DOMAIN d

\* a datagram is lost on the broadcast medium
LoseDatagram(n, m) ==
    /\ UNCHANGED <<baseVars, pairVars, sevVars>>
    /\ m \in inbox[n]
    /\ inbox' = [inbox EXCEPT ![n] = @ \ {m}]
    /\ UNCHANGED <<clock, cacheVars, thrVars, histCacheVars, next_id, sentry_pc,
                   listen_pc, listen_fwd, uplink_q, histMeshVars>>

\* recvfrom + json.loads + handle_message up to and including send_raw
ListenReceive(n, m, bOk) ==
    /\ UNCHANGED <<baseVars, pairVars, sevVars>>
    /\ listen_pc[n] = "recv"
    /\ m \in inbox[n]
    /\ UNCHANGED <<clock, thrVars, next_id, sentry_pc, uplink_q, h_orig,
                   seen_lock, cleanup_pc, cleanup_cutoff, h_uplinks>>
    /\ h_dropped' = IF ~IsJsonObject(m) \/ Malformed(m) THEN m
                    ELSE IF ~ShouldAccept(n, m.id) THEN [duplicate |-> m.id]
                    ELSE h_dropped
    /\ IF ~IsJsonObject(m) \/ Malformed(m)
       THEN /\ inbox' = [inbox EXCEPT ![n] = @ \ {m}]
            /\ UNCHANGED <<seen_messages, histCacheVars, listen_pc, listen_fwd,
                           h_rebroadcasts>>
       ELSE
         \* should_accept runs under seen_lock
         /\ LockFree(n)
         /\ HistDecision(n, m.id, ShouldAccept(n, m.id))
         /\ IF ~ShouldAccept(n, m.id)
            THEN /\ inbox' = [inbox EXCEPT ![n] = @ \ {m}]
                 /\ seen_messages' = SeenAfterDuplicate(n, m.id)
                 /\ UNCHANGED <<listen_pc, listen_fwd, h_rebroadcasts>>
            ELSE
              /\ seen_messages' = RecordSeen(n, m.id)
              /\ IF IsTerminal(m)
                 THEN /\ inbox' = [inbox EXCEPT ![n] = @ \ {m}]
                      /\ UNCHANGED <<listen_pc, listen_fwd, h_rebroadcasts>>
                 ELSE
                   /\ h_rebroadcasts' = [h_rebroadcasts EXCEPT ![n][m.id] = @ + 1]
                   /\ IF bOk
                      THEN \* send_raw(sock, fwd), then forward_to_laptop(fwd)
                           /\ inbox' = [r \in Relays |->
                                 (IF r = n THEN inbox[r] \ {m} ELSE inbox[r])
                                    \cup {Fwd(n, m)}]
                           /\ listen_pc' = [listen_pc EXCEPT ![n] = "uplink"]
                           /\ listen_fwd' = [listen_fwd EXCEPT ![n] = Fwd(n, m)]
                      ELSE \* sendto raises: handle_message is left, listen_loop
                           \* reports the error and sleeps 0.5 s
                           /\ inbox' = [inbox EXCEPT ![n] = @ \ {m}]
                           /\ UNCHANGED <<listen_pc, listen_fwd>>

PcAfterUplinkRetry(uOk) == IF uOk THEN "recv" ELSE "uplink"

\* where the relay is after forward_to_laptop(fwd): the function catches
\* and reports every exception, handle_message returns, and listen_loop
\* goes to its next recvfrom
PcAfterUplink(uOk) == "recv"

\* forward_to_laptop(fwd): connect and sendall succeed (the base station has
\* room for the connection), or an exception is caught and reported
ForwardToLaptop(n, uOk) ==
    /\ UNCHANGED <<baseVars, pairVars, sevVars>>
    /\ listen_pc[n] = "uplink"
    /\ uOk => Len(uplink_q) < MaxQueue
    /\ uplink_q' = IF uOk THEN Append(uplink_q, listen_fwd[n]) ELSE uplink_q
    /\ listen_pc' = [listen_pc EXCEPT ![n] = PcAfterUplink(uOk)]
    /\ listen_fwd' = [listen_fwd EXCEPT ![n] =
                         IF PcAfterUplink(uOk) = "recv" THEN EmptyDict ELSE @]
    /\ h_uplinks' = [h_uplinks EXCEPT ![n][listen_fwd[n].id] = @ + 1]
    /\ UNCHANGED <<clock, cacheVars, thrVars, histCacheVars, next_id, sentry_pc,
                   inbox, h_orig, h_rebroadcasts, h_dropped>>

\* ------------------------------------------- base station: should_alert
Max(a, b) == IF a >= b THEN a ELSE b
Min(a, b) == IF a <= b THEN a ELSE b

\* the nodes a message can name as its source
SrcIds == Sentries \cup Relays

AlertKeyGlobal(node_id) == "unknown"

\* the key of last_alert_times that should_alert(node_id) reads and writes
AlertKey(node_id) == node_id

CooldownElapsedEarly(d) == d >= TimeStep

CooldownElapsedStrict(d) == d > ALERT_COOLDOWN_SECONDS

\* `time_since_last >= ALERT_COOLDOWN_SECONDS`
CooldownElapsed(d) == d >= ALERT_COOLDOWN_SECONDS

\* the value should_alert(node_id) returns at time t on the table
ShouldAlertRet(table, node_id, t) ==
    IF AlertKey(node_id) \notin DOMAIN table
    THEN TRUE
    ELSE CooldownElapsed(t - table[AlertKey(node_id)])

\* last_alert_times after should_alert(node_id) at time t
ShouldAlertTable(table, node_id, t) ==
    IF ShouldAlertRet(table, node_id, t)
    THEN DictSet(table, AlertKey(node_id), t)
    ELSE table

\* --------------------------------------- base station: the incident record
SeverityRounded(risk) == Max(1, Min(10, (risk * 10 + RiskScale \div 2) \div RiskScale))

\* `max(1, min(10, int(risk * 10)))` for a risk of risk/RiskScale >= 0
Severity(risk) == Max(1, Min(10, (risk * 10) \div RiskScale))

\* `payload.get("risk", 0.8)`
RiskOf(payload) == Get(payload, "risk", (8 * RiskScale) \div 10)

\* mesh_base_station_mongo_direct: the severity of an alert payload
SeverityMongo(payload) ==
    IF "risk" \in DOMAIN payload /\ 0 <= payload.risk /\ payload.risk <= RiskScale
    THEN Severity(payload.risk)
    ELSE 8

TraversalPathOneBased(route) ==
    [i \in 1..Len(route) |-> [hopIndex |-> i, nodeId |-> route[i]]]

\* the list comprehension over enumerate(route)
TraversalPath(route) ==
    [i \in 1..Len(route) |-> [hopIndex |-> i - 1, nodeId |-> route[i]]]

\* incident_data of mesh_base_station.handle_message; an absent id is 0
BuildIncident(msg) ==
    LET payload == Get(msg, "payload", EmptyDict)
        src_node == Get(msg, "src", "unknown")
        src_location == Get(msg, "src_location", EmptyDict)
    IN [incidentId |-> Get(msg, "id", 0),
        type |-> "fire",
        severity |-> Severity(RiskOf(payload)),
        status |-> "open",
        source |-> [originNodeId |-> src_node, detectionMethod |-> "sensor",
                    detectedAt |-> clock],
        location |-> [coordinates |-> <<Get(src_location, "lon", 0),
                                        Get(src_location, "lat", 0)>>,
                      regionCode |-> "UNKNOWN"],
        traversalPath |-> TraversalPath(Get(msg, "route", <<>>)),
        baseReceipt |-> [baseNodeId |-> BASE_NODE_ID, receivedAt |-> clock,
                         processingStatus |-> "queued"],
        payload |-> [raw |-> [risk |-> RiskOf(payload)]]]

SubmissionsRetryFailed(msg, alerted) ==
    IF h_base_last.submitted # <<>> /\ ~h_base_last.stored
    THEN <<h_base_last.submitted[Len(h_base_last.submitted)], BuildIncident(msg)>>
    ELSE <<BuildIncident(msg)>>

SubmissionsIfAlerted(msg, alerted) ==
    IF alerted THEN <<BuildIncident(msg)>> ELSE <<>>

\* the incidents handle_message passes to submit_incident_to_api for an
\* alert message, should_alert having returned `alerted`
Submissions(msg, alerted) == <<BuildIncident(msg)>>

\* the part of an incident that is taken from the message
Content(inc) ==
    [incidentId |-> inc.incidentId, severity |-> inc.severity,
     originNodeId |-> inc.source.originNodeId,
     coordinates |-> inc.location.coordinates,
     traversalPath |-> inc.traversalPath, payload |-> inc.payload]

IsAlertUnlessHello(msg) == Get(Get(msg, "payload", EmptyDict), "type", "none") # "hello"

\* `msg.get("payload", {}).get("type") == "alert"`
IsAlert(msg) == Get(Get(msg, "payload", EmptyDict), "type", "none") = "alert"

\* ------------------------------------------- base station: the accept loop
\* a copy as a relay uplinks it
UplinkCopy(id, src, payload, route) ==
    [id |-> id, src |-> src, src_location |-> NODE_LOCATION,
     ttl |-> TTL_DEFAULT - (Len(route) - 1), ts |-> 0, route |-> route,
     payload |-> payload]

\* the messages that connect to the base station
BaseInputs ==
    {UplinkCopy(1, "Sentry_001", SentryAlertPayload, <<"Sentry_001", "Relay_001">>),
     UplinkCopy(1, "Sentry_001", SentryAlertPayload, <<"Sentry_001", "Relay_002">>),
     UplinkCopy(2, "Sentry_001", SentryAlertPayload, <<"Sentry_001", "Relay_001">>),
     UplinkCopy(2, "Relay_002", TestAlertPayload, <<"Relay_002">>),
     UplinkCopy(1, "Sentry_001", HelloPayload, <<"Sentry_001", "Relay_001">>),
     [id |-> 2, src |-> "Sentry_001", route |-> <<"Sentry_001", "Relay_002">>]}

\* a relay (or any other client) connects to port 6000 and sends a message
UplinkConnect(msg) ==
    /\ UNCHANGED <<clock, relayVars, baseVars, pairVars, sevVars>>
    /\ Len(uplink_q) < MaxQueue
    /\ uplink_q' = Append(uplink_q, msg)

\* what the accept loop meets on a connection: a marker stands for a peer
\* that sends nothing and closes ("empty": recv returns b""), sends nothing
\* within 5 s ("timeout": socket.timeout), sends bytes that json.loads
\* rejects ("unparseable"), or sends JSON that is not an object ("nondict":
\* msg.get raises inside handle_message, whose own except catches it);
\* anything else is a JSON object, passed to handle_message
WireOutcome(conn) == IF "wire" \in DOMAIN conn THEN conn.wire ELSE "message"

ConnClosedUnlessRaised(outcome) == outcome \in {"message", "nondict", "empty"}

\* `finally: conn.close()`: the connection is closed on every way out of
\* the try block
ConnClosed(outcome) == TRUE

\* open_conns after the iteration that meets `outcome`; an iteration that
\* starts at sock.accept() has one more connection open than before
OpenConnsAfter(outcome) ==
    (IF base_pc = "accept" THEN open_conns + 1 ELSE open_conns)
       - (IF ConnClosed(outcome) THEN 1 ELSE 0)

\* `conn, addr = sock.accept()` returns and the rest of the iteration has
\* not run yet: the connection at the head of the queue is being handled
SockAccept ==
    /\ UNCHANGED <<clock, relayVars, uplink_q, pairVars, sevVars>>
    /\ base_pc = "accept"
    /\ uplink_q # <<>>
    /\ base_pc' = "handling"
    /\ open_conns' = open_conns + 1
    /\ UNCHANGED <<last_alert_times, h_last_true, h_base_last, h_content,
                   alert_threads, base_variant, mongo_incidents>>

TriggerAlertsJoins(running) == running = 0

\* trigger_alerts ends with thread.start() and does not join alert_thread:
\* it has returned however many alert threads are still running
TriggerAlertsReturned(running) == TRUE

\* alert_thread (show_red_screen, play_alert_sound) comes to its end
AlertThreadFinish ==
    /\ UNCHANGED <<clock, relayVars, uplink_q, pairVars, sevVars>>
    /\ alert_threads > 0
    /\ alert_threads' = alert_threads - 1
    /\ UNCHANGED <<last_alert_times, h_last_true, h_base_last, h_content,
                   base_variant, mongo_incidents, base_pc, open_conns>>

\* one iteration of the accept loop of mesh_base_station: accept, recv,
\* json.loads, handle_message, close; apiOk is the value returned by
\* submit_incident_to_api
BaseAccept(apiOk) ==
    /\ UNCHANGED <<clock, relayVars, pairVars, sevVars>>
    /\ UNCHANGED <<base_variant, mongo_incidents>>
    /\ base_variant = "api"
    /\ TriggerAlertsReturned(alert_threads)
    /\ uplink_q # <<>>
    /\ uplink_q' = Tail(uplink_q)
    /\ base_pc' = "accept"
    /\ open_conns' = OpenConnsAfter(WireOutcome(Head(uplink_q)))
    /\ LET msg == Head(uplink_q)
           src_node == Get(msg, "src", "unknown")
           alerted == ShouldAlertRet(last_alert_times, src_node, clock)
       IN IF ~IsAlert(msg)
          THEN /\ h_base_last' = [handled |-> WireOutcome(msg) = "message",
                                  msg |-> msg, alerted |-> "none",
                                  submitted |-> <<>>, stored |-> FALSE]
               /\ UNCHANGED <<last_alert_times, h_last_true, h_content, alert_threads>>
          ELSE /\ last_alert_times' = ShouldAlertTable(last_alert_times, src_node, clock)
               \* trigger_alerts(): thread.start(), and handle_message goes on
               /\ alert_threads' = IF alerted THEN alert_threads + 1 ELSE alert_threads
               /\ h_last_true' = IF alerted THEN DictSet(h_last_true, src_node, clock)
                                 ELSE h_last_true
               /\ h_base_last' =
                     [handled |-> TRUE, msg |-> msg,
                      alerted |-> IF alerted THEN "True" ELSE "False",
                      submitted |-> Submissions(msg, alerted),
                      stored |-> apiOk /\ Submissions(msg, alerted) # <<>>]
               /\ h_content' =
                     IF alerted /\ Submissions(msg, alerted) # <<>>
                     THEN DictSet(h_content, msg, Content(Submissions(msg, alerted)[1]))
                     ELSE h_content

\* ------------------------- base station: mesh_base_station_mongo_direct
\* the node_type chosen from the naming convention of node ids
NodeType(node_id) ==
    IF node_id \in Sentries THEN "edge"
    ELSE IF node_id \in Relays THEN "relay"
    ELSE IF node_id = BASE_NODE_ID THEN "base"
    ELSE "relay"

\* mongo_interface.add_traversal_hop on a document whose traversalPath is
\* path: hop_index = len(traversalPath), then $push of the hop
AddTraversalHop(path, node_id) ==
    Append(path, [hopIndex |-> Len(path), nodeId |-> node_id,
                  nodeType |-> NodeType(node_id)])

\* traversalPath after the first k iterations of `for idx, node_id in
\* enumerate(route)` on a document that create_incident has just stored
RECURSIVE HopsAdded(_, _)
HopsAdded(route, k) ==
    IF k = 0 THEN <<>>
    ELSE AddTraversalHop(HopsAdded(route, k - 1), route[k])

\* `incident_id = str(uuid.uuid4())` of create_incident when the message
\* has no id: a key no stored document and no message id equals
FreshIncidentId(docs) == 0 - (Cardinality(DOMAIN docs) + 1)

\* mongo_interface.create_incident: the document as insert_one stores it;
\* origin_node_id is msg.get("src"), None when the message has no src
CreateIncident(msg, severity, incident_id) ==
    [incidentId |-> incident_id,
     severity |-> Max(1, Min(10, severity)),
     originNodeId |-> Get(msg, "src", "None"),
     traversalPath |-> <<>>,
     processingStatus |-> "queued"]

\* one iteration of the accept loop of mesh_base_station_mongo_direct.
\* dbAvail is the value of is_mongodb_available(); dbOps is the number of
\* database calls after insert_one that succeed before one raises (the
\* add_traversal_hop calls, then update_base_receipt_status); insert_one
\* raises DuplicateKeyError on an incidentId already stored (unique index)
BaseAcceptMongo(dbAvail, dbOps) ==
    /\ UNCHANGED <<clock, relayVars, pairVars, sevVars>>
    /\ UNCHANGED <<last_alert_times, h_last_true, h_content, base_variant>>
    /\ base_variant = "mongo"
    /\ TriggerAlertsReturned(alert_threads)
    /\ uplink_q # <<>>
    /\ uplink_q' = Tail(uplink_q)
    /\ base_pc' = "accept"
    /\ open_conns' = OpenConnsAfter(WireOutcome(Head(uplink_q)))
    /\ LET msg == Head(uplink_q)
           payload == Get(msg, "payload", EmptyDict)
           route == Get(msg, "route", <<>>)
           incident_id == IF "id" \in DOMAIN msg THEN msg.id
                          ELSE FreshIncidentId(mongo_incidents)
           doc == CreateIncident(msg, SeverityMongo(payload), incident_id)
           hops == HopsAdded(route, Min(dbOps, Len(route)))
       IN /\ dbOps <= Len(route) + 1
          /\ IF ~IsAlert(msg)
             THEN /\ h_base_last' = [handled |-> WireOutcome(msg) = "message",
                                     msg |-> msg, alerted |-> "none",
                                     submitted |-> <<>>, stored |-> FALSE]
                  /\ UNCHANGED <<alert_threads, mongo_incidents>>
             ELSE \* trigger_alerts() for every alert: no cooldown here
                  /\ alert_threads < MaxAlertThreads
                  /\ alert_threads' = alert_threads + 1
                  /\ ("id" \notin DOMAIN msg /\ dbAvail) =>
                        Cardinality(DOMAIN mongo_incidents) < MaxIncidents
                  /\ IF ~dbAvail \/ incident_id \in DOMAIN mongo_incidents
                     THEN /\ h_base_last' =
                                [handled |-> TRUE, msg |-> msg, alerted |-> "True",
                                 submitted |-> <<>>, stored |-> FALSE]
                          /\ UNCHANGED mongo_incidents
                     ELSE /\ h_base_last' =
                                [handled |-> TRUE, msg |-> msg, alerted |-> "True",
                                 submitted |-> <<>>, stored |-> TRUE]
                          /\ mongo_incidents' = DictSet(mongo_incidents, incident_id,
                                [doc EXCEPT
                                   !.traversalPath = hops,
                                   !.processingStatus =
                                       IF dbOps = Len(route) + 1 THEN "completed"
                                       ELSE "queued"])

\* ------------------------------------- two runs of should_alert side by side
\* the node whose should_alert calls differ between the two runs
PairNodeA == "Relay_001"

\* should_alert(node_id) is called at the same time in both runs
PairCommonCall(node_id) ==
    /\ UNCHANGED <<clock, relayVars, uplink_q, h_last_true, h_base_last, h_content,
                   alert_threads, base_variant, mongo_incidents, base_pc,
                   open_conns, sevVars>>
    /\ node_id # PairNodeA
    /\ last_alert_times' = ShouldAlertTable(last_alert_times, node_id, clock)
    /\ run2_alert_times' = ShouldAlertTable(run2_alert_times, node_id, clock)
    /\ pair_ret' = [node |-> node_id,
                    run1 |-> ShouldAlertRet(last_alert_times, node_id, clock),
                    run2 |-> ShouldAlertRet(run2_alert_times, node_id, clock)]

\* should_alert(PairNodeA) is called in the first run only
PairCallRun1 ==
    /\ UNCHANGED <<clock, relayVars, uplink_q, h_last_true, h_base_last, h_content,
                   alert_threads, base_variant, mongo_incidents, base_pc,
                   open_conns, sevVars>>
    /\ last_alert_times' = ShouldAlertTable(last_alert_times, PairNodeA, clock)
    /\ UNCHANGED <<run2_alert_times, pair_ret>>

\* should_alert(PairNodeA) is called in the second run only
PairCallRun2 ==
    /\ UNCHANGED <<clock, relayVars, uplink_q, baseVars, sevVars>>
    /\ run2_alert_times' = ShouldAlertTable(run2_alert_times, PairNodeA, clock)
    /\ UNCHANGED pair_ret

\* ------------------------------------------------ the severity of a risk
\* mesh_base_station.handle_message on an alert whose risk is sev_risk
ComputeSeverity ==
    /\ UNCHANGED <<clock, relayVars, uplink_q, baseVars, pairVars, sev_risk>>
    /\ sev_out' = [sev_out EXCEPT !.api =
          BuildIncident(UplinkCopy(1, "Sentry_001",
              [type |-> "alert", risk |-> sev_risk], <<"Sentry_001">>)).severity]

\* mesh_base_station_mongo_direct.handle_message on the same alert
ComputeSeverityMongo ==
    /\ UNCHANGED <<clock, relayVars, uplink_q, baseVars, pairVars, sev_risk>>
    /\ sev_out' = [sev_out EXCEPT !.mongo =
          SeverityMongo([type |-> "alert", risk |-> sev_risk])]

\* ---------------------------------------------------------------- Init
InitState ==
    /\ clock = 0
    /\ seen_messages = [n \in Relays |-> EmptyDict]
    /\ seen_lock = [n \in Relays |-> "free"]
    /\ cleanup_pc = [n \in Relays |-> "cutoff"]
    /\ cleanup_cutoff = [n \in Relays |-> 0]
    /\ thr_pc = [t \in Callers |-> "idle"]
    /\ thr_id = [t \in Callers |-> 1]
    /\ thr_ret = [t \in Callers |-> "none"]
    /\ h_live = [n \in Relays |-> [id \in MsgIds |-> 0]]
    /\ h_total = [n \in Relays |-> [id \in MsgIds |-> 0]]
    /\ h_last = [n \in Relays |-> EmptyDict]
    /\ h_evicted = [n \in Relays |-> {}]
    /\ next_id = 0
    /\ sentry_pc = [s \in Sentries |-> "run"]
    /\ inbox = [n \in Relays |-> {}]
    /\ listen_fwd = [n \in Relays |-> EmptyDict]
    /\ uplink_q = <<>>
    /\ h_orig = EmptyDict
    /\ h_rebroadcasts = [n \in Relays |-> [id \in MsgIds |-> 0]]
    /\ h_uplinks = [n \in Relays |-> [id \in MsgIds |-> 0]]
    /\ h_dropped = EmptyDict
    /\ last_alert_times = EmptyDict
    /\ h_last_true = EmptyDict
    /\ h_base_last = [handled |-> FALSE, msg |-> EmptyDict, alerted |-> "none",
                      submitted |-> <<>>, stored |-> FALSE]
    /\ h_content = EmptyDict
    /\ alert_threads = 0
    /\ mongo_incidents = EmptyDict
    /\ base_pc = "accept"
    /\ open_conns = 0
    /\ run2_alert_times = EmptyDict
    /\ pair_ret = [node |-> "unknown", run1 |-> TRUE, run2 |-> TRUE]
    /\ sev_out = [api |-> 0, mongo |-> 0]

\* every relay was started without argument: main is in listen_loop
Init ==
    /\ InitState
    /\ listen_pc = [n \in Relays |-> "recv"]
    /\ base_variant = "api"
    /\ sev_risk = 0

\* a risk score anywhere on the grid 0, 1/RiskScale, ..., 1
InitSeverity ==
    /\ InitState
    /\ listen_pc = [n \in Relays |-> "recv"]
    /\ base_variant = "api"
    /\ sev_risk \in 0..RiskScale

\* each relay was started either without argument or with `test-hello` or
\* `test-alert`, and then main is about to run that branch; the base station
\* runs one of its two programs
InitE2E ==
    /\ InitState
    /\ listen_pc \in [Relays -> {"recv", "main"}]
    /\ base_variant \in {"api", "mongo"}
    /\ sev_risk = 0

\* ------------------------------------------- the cache under concurrent use
NextCache ==
    \/ Tick
    \/ \E t \in Callers, id \in MsgIds : CallShouldAccept(t, id)
    \/ \E t \in Callers : AcquireSeenLock(t)
    \/ \E t \in Callers : CheckSeen(t)
    \/ \E t \in Callers : InsertSeen(t)
    \/ \E t \in Callers : ReleaseSeenLock(t)
    \/ CleanupCutoff(CacheNode)
    \/ CleanupAcquire(CacheNode)
    \/ CleanupSweep(CacheNode)

SpecCache == Init /\ [][NextCache]_vars

\* the threads of a relay under a fair scheduler: a thread that can take its
\* next step takes it, and a thread that waits for seen_lock obtains it if
\* the lock comes free again and again
FairCache ==
    /\ WF_vars(CleanupCutoff(CacheNode))
    /\ SF_vars(CleanupAcquire(CacheNode))
    /\ WF_vars(CleanupSweep(CacheNode))
    /\ \A t \in Callers :
          /\ WF_vars(CheckSeen(t))
          /\ WF_vars(InsertSeen(t))
          /\ WF_vars(ReleaseSeenLock(t))

SpecCacheFair == Init /\ [][NextCache]_vars /\ FairCache

\* ------------------------------------------------------------- the mesh
Next ==
    \/ Tick
    \/ \E s \in Sentries, bOk \in BOOLEAN : SentryAlert(s, bOk)
    \/ \E s \in Sentries, ttl \in 0..MaxTTL : SendNew(s, HelloPayload, ttl)
    \/ \E n \in Relays : \E m \in inbox[n] : LoseDatagram(n, m)
    \/ \E n \in Relays, bOk \in BOOLEAN : \E m \in inbox[n] : ListenReceive(n, m, bOk)
    \/ \E n \in Relays, uOk \in BOOLEAN : ForwardToLaptop(n, uOk)
    \/ \E n \in Relays, t \in ClockReadings : CleanupPass(n, t)

Spec == Init /\ [][Next]_vars

\* --------------------------------------------------- the base station alone
NextBase ==
    \/ Tick
    \/ \E msg \in BaseInputs : UplinkConnect(msg)
    \/ \E apiOk \in BOOLEAN : BaseAccept(apiOk)
    \/ AlertThreadFinish

SpecBase == Init /\ [][NextBase]_vars

\* ------------------------------- the base station, either of its programs
InitBase ==
    /\ InitState
    /\ listen_pc = [n \in Relays |-> "recv"]
    /\ base_variant \in {"api", "mongo"}
    /\ sev_risk = 0

NextBaseBoth ==
    \/ NextBase
    \/ \E dbAvail \in BOOLEAN, dbOps \in 0..(MaxHops + 1) : BaseAcceptMongo(dbAvail, dbOps)

SpecBaseBoth == InitBase /\ [][NextBaseBoth]_vars

\* ------------------------- a relay and whatever reaches its port 5005
\* datagrams of any sender: bytes that are not JSON, JSON that is not an
\* object, messages without id, with an empty id or without src, messages
\* without ttl or with ttl <= 0, and a message that can be forwarded once
ForeignDatagrams ==
    {[wire |-> "notjson"], [wire |-> "nondict"],
     [src |-> "Sentry_001", ttl |-> 1, route |-> <<"Sentry_001">>, payload |-> HelloPayload],
     [id |-> 0, src |-> "Sentry_001", ttl |-> 1, route |-> <<"Sentry_001">>,
      payload |-> HelloPayload],
     [id |-> 1, ttl |-> 1, route |-> <<"Sentry_001">>, payload |-> HelloPayload],
     [id |-> 1, src |-> "Sentry_001", route |-> <<"Sentry_001">>, payload |-> HelloPayload],
     [id |-> 1, src |-> "Sentry_001", ttl |-> 0 - 1, route |-> <<"Sentry_001">>,
      payload |-> HelloPayload],
     [id |-> 2, src |-> "Sentry_001", ttl |-> 1, route |-> <<"Sentry_001">>,
      payload |-> SentryAlertPayload]}

\* a datagram of some sender reaches the socket of relay n, which holds
\* no other datagram
DatagramArrives(n, d) ==
    /\ UNCHANGED <<baseVars, pairVars, sevVars>>
    /\ inbox[n] = {}
    /\ inbox' = [inbox EXCEPT ![n] = @ \cup {d}]
    /\ UNCHANGED <<clock, cacheVars, thrVars, histCacheVars, next_id, sentry_pc,
                   listen_pc, listen_fwd, uplink_q, histMeshVars>>

NextRelayWire ==
    \/ \E n \in Relays, d \in ForeignDatagrams : DatagramArrives(n, d)
    \/ \E n \in Relays : \E m \in inbox[n] : LoseDatagram(n, m)
    \/ \E n \in Relays, bOk \in BOOLEAN : \E m \in inbox[n] : ListenReceive(n, m, bOk)
    \/ \E n \in Relays, uOk \in BOOLEAN : ForwardToLaptop(n, uOk)

SpecRelayWire == Init /\ [][NextRelayWire]_vars

\* ----------------- the base station and whatever connects to its port 6000
\* connections of every kind the accept loop tells apart, and alert
\* messages that lack a field
WireInputs ==
    {UplinkCopy(1, "Sentry_001", SentryAlertPayload, <<"Sentry_001", "Relay_001">>),
     [id |-> 1, route |-> <<"Sentry_001", "Relay_001">>, payload |-> SentryAlertPayload],
     [src |-> "Sentry_001", route |-> <<"Sentry_001", "Relay_001">>,
      payload |-> SentryAlertPayload],
     [wire |-> "empty"], [wire |-> "timeout"], [wire |-> "unparseable"],
     [wire |-> "nondict"]}

NextWire ==
    \/ \E conn \in WireInputs : UplinkConnect(conn)
    \/ SockAccept
    \/ \E apiOk \in BOOLEAN : BaseAccept(apiOk)
    \/ \E dbAvail \in BOOLEAN, dbOps \in 0..(MaxHops + 1) : BaseAcceptMongo(dbAvail, dbOps)
    \/ AlertThreadFinish

SpecWire == InitBase /\ [][NextWire]_vars

\* ------------------------------------ sentry, relays and base station together
NextE2E ==
    \/ \E s \in Sentries, bOk \in BOOLEAN : SentryAlert(s, bOk)
    \/ \E s \in Sentries, ttl \in 0..MaxTTL : SendNew(s, HelloPayload, ttl)
    \/ \E n \in Relays, bOk \in BOOLEAN, uOk \in BOOLEAN : RelayTestHello(n, bOk, uOk)
    \/ \E n \in Relays, uOk \in BOOLEAN, bOk \in BOOLEAN : RelayTestAlert(n, uOk, bOk)
    \/ \E n \in Relays : \E m \in inbox[n] : LoseDatagram(n, m)
    \/ \E n \in Relays, bOk \in BOOLEAN : \E m \in inbox[n] : ListenReceive(n, m, bOk)
    \/ \E n \in Relays, uOk \in BOOLEAN : ForwardToLaptop(n, uOk)
    \/ \E apiOk \in BOOLEAN : BaseAccept(apiOk)
    \/ \E dbAvail \in BOOLEAN, dbOps \in 0..(MaxHops + 1) : BaseAcceptMongo(dbAvail, dbOps)
    \/ AlertThreadFinish

SpecE2E == InitE2E /\ [][NextE2E]_vars

\* ----------------------- two runs that differ in the calls for PairNodeA only
NextPair ==
    \/ Tick
    \/ \E node_id \in SrcIds : PairCommonCall(node_id)
    \/ PairCallRun1
    \/ PairCallRun2

SpecPair == Init /\ [][NextPair]_vars

\* --------------------------------------------------- severity of every risk
NextSeverity ==
    \/ ComputeSeverity
    \/ ComputeSeverityMongo

SpecSeverity == InitSeverity /\ [][NextSeverity]_vars

\* ======================================================== claims on the flood
\* no entry of id has been swept from the cache of relay n so far
NoEviction(n, id) == h_total[n][id] = h_live[n][id]

RECURSIVE SumOver(_, _)
SumOver(S, f) ==
    IF S = {} THEN 0
    ELSE LET x == CHOOSE y \in S : TRUE IN f[x] + SumOver(S \ {x}, f)

\* send_raw calls made by handle_message for id, over all relays
Rebroadcasts(id) == SumOver(Relays, [n \in Relays |-> h_rebroadcasts[n][id]])

\* C2: all relays hear every broadcast; for a message originated by a sentry
\* with ttl >= N (N the number of relays), as long as no relay has evicted
\* its id, every relay has called send_raw for it at most once and the whole
\* mesh at most N times, whatever the order of delivery and loss.
C2_FloodBoundedByRelays ==
    \A id \in DOMAIN h_orig :
        (/\ h_orig[id].src \in Sentries
         /\ h_orig[id].ttl >= Cardinality(Relays)
         /\ \A n \in Relays : NoEviction(n, id))
        => /\ \A n \in Relays : h_rebroadcasts[n][id] <= 1
           /\ Rebroadcasts(id) <= Cardinality(Relays)

\* the flood of a message with ttl >= N is over: every relay has
\* rebroadcast it once and passed it to the uplink, and no copy is left
C2_Witness ==
    \E id \in DOMAIN h_orig :
        /\ h_orig[id].ttl >= Cardinality(Relays)
        /\ \A n \in Relays : NoEviction(n, id) /\ h_rebroadcasts[n][id] = 1
        /\ \A n \in Relays : inbox[n] = {} /\ listen_pc[n] = "recv"
        /\ Len(uplink_q) = Cardinality(Relays)

\* the datagrams the receive loop of relay n takes from its socket in a step
Taken(n) == inbox[n] \ inbox'[n]

\* the datagrams that reach the socket of relay n in a step
Arrived(n) == inbox'[n] \ inbox[n]

\* C3: a relay that takes a copy with ttl = t broadcasts nothing if t <= 0
\* and otherwise only a copy with ttl = t - 1; so every copy broadcast for a
\* message originated with ttl = T has ttl = T - k >= 0 after k forwards
\* (k = length of its route - 1), and none is broadcast after T forwards.
C3_TtlDecay ==
    [][\A n \in Relays :
         /\ \A m \in Taken(n) :
               /\ Get(m, "ttl", 0) <= 0 =>
                     /\ h_rebroadcasts' = h_rebroadcasts
                     /\ \A r \in Relays : Arrived(r) = {}
               /\ \A c \in Arrived(n) : c.ttl = m.ttl - 1
         /\ \A c \in inbox'[n] :
               /\ c.ttl = h_orig'[c.id].ttl - (Len(c.route) - 1)
               /\ c.ttl >= 0
               /\ Len(c.route) - 1 <= h_orig'[c.id].ttl
      ]_vars

\* a message originated with ttl = 1 was rebroadcast by one relay (with
\* ttl = 0); another relay accepted it and made no broadcast for it
C3_Witness ==
    \E id \in DOMAIN h_orig, n1 \in Relays, n2 \in Relays :
        /\ h_orig[id].ttl = 1
        /\ n1 # n2
        /\ h_rebroadcasts[n1][id] = 1
        /\ h_total[n2][id] = 1 /\ h_rebroadcasts[n2][id] = 0
        /\ \E c \in inbox[n1] : c.id = id /\ c.ttl = 0 /\ c.route = <<h_orig[id].src, n1>>
        /\ \A c \in inbox[n2] : c.id # id

\* C4: send_new gives a message the route [originating node]; a relay that
\* forwards a copy appends its own id at the end of the received route and
\* changes nothing else in it, so a copy forwarded by A then B carries
\* [origin, A, B].
C4_RouteAccumulates ==
    [][/\ \A id \in (DOMAIN h_orig') \ (DOMAIN h_orig) :
             /\ h_orig'[id].route = <<h_orig'[id].src>>
             /\ \A r \in Relays : \A c \in Arrived(r) : c = h_orig'[id]
       /\ \A n \in Relays : \A m \in Taken(n) : \A c \in Arrived(n) :
             /\ Len(c.route) = Len(m.route) + 1
             /\ SubSeq(c.route, 1, Len(m.route)) = m.route
             /\ c.route[Len(c.route)] = n
       /\ \A n \in Relays : \A c \in inbox'[n] :
             /\ c.route[1] = h_orig'[c.id].src
             /\ \A i \in 2..Len(c.route) : c.route[i] \in Relays
      ]_vars

\* a copy forwarded by Relay_001 and then by Relay_002 is in flight
C4_Witness ==
    \E n \in Relays : \E c \in inbox[n] :
        c.route = <<h_orig[c.id].src, "Relay_001", "Relay_002">>

\* ======================================================= claims on the cache
\* C1: between two evictions of an id, should_accept(id) returns True exactly
\* once per relay: the count of True returns since the last eviction never
\* exceeds 1 (two concurrent calls never both return True), and it is 1
\* exactly while the id is recorded, so every later call returns False.
C1_AcceptOncePerEviction ==
    \A n \in Relays, id \in MsgIds :
        /\ h_live[n][id] <= 1
        /\ (h_live[n][id] = 1) <=> InSeen(n, id)
        /\ \A t \in Callers :
              (n = CacheNode /\ thr_id[t] = id /\ thr_ret[t] = "False"
                 /\ thr_pc[t] = "release") => InSeen(n, id)

\* two overlapping calls for the same id: one has returned True and still
\* holds the lock, the other waits for the lock
C1_Witness ==
    \E t1 \in Callers, t2 \in Callers :
        /\ t1 # t2
        /\ thr_id[t1] = thr_id[t2]
        /\ thr_pc[t1] = "release" /\ thr_ret[t1] = "True"
        /\ thr_pc[t2] = "acquire"
        /\ h_live[CacheNode][thr_id[t1]] = 1

\* C5: a sweep whose clock reading `now` satisfies now - first_seen(id) >
\* SEEN_EXPIRY_SEC removes the entry of id; the entry stays away until
\* should_accept(id) is asked again, and that call returns True and records
\* the current time as the new first-seen time.
C5_SweepThenAcceptAgain ==
    [][\A n \in Relays :
         /\ (cleanup_pc[n] = "sweep" /\ cleanup_pc'[n] = "cutoff") =>
                \A id \in ExpiredAtSweep(n) : id \notin DOMAIN seen_messages'[n]
         /\ \A id \in h_evicted'[n] : id \notin DOMAIN seen_messages'[n]
         /\ \A id \in h_evicted[n] \ h_evicted'[n] :
                /\ h_total'[n][id] = h_total[n][id] + 1
                /\ id \in DOMAIN seen_messages'[n]
                /\ seen_messages'[n][id] = clock
      ]_vars

\* an id was accepted, swept after expiry and accepted a second time
C5_Witness ==
    \E id \in MsgIds :
        /\ h_total[CacheNode][id] = 2
        /\ id \notin h_evicted[CacheNode]
        /\ InSeen(CacheNode, id)

\* C6: an entry at most SEEN_EXPIRY_SEC old is never removed, and an id is
\* never accepted again within SEEN_EXPIRY_SEC of its previous acceptance by
\* the same relay, whatever sweeps run in between.
C6_NoEvictionInsideWindow ==
    [][\A n \in Relays, id \in MsgIds :
         /\ (InSeen(n, id) /\ clock - seen_messages[n][id] <= SEEN_EXPIRY_SEC)
               => id \in DOMAIN seen_messages'[n]
         /\ (h_total'[n][id] > h_total[n][id] /\ id \in DOMAIN h_last[n])
               => clock - h_last[n][id] > SEEN_EXPIRY_SEC
      ]_vars

\* a sweep has run while an entry was exactly SEEN_EXPIRY_SEC old, and the
\* entry is still there
C6_Witness ==
    \E id \in MsgIds :
        /\ cleanup_pc[CacheNode] = "cutoff"
        /\ cleanup_cutoff[CacheNode] > 0
        /\ InSeen(CacheNode, id)
        /\ seen_messages[CacheNode][id] = cleanup_cutoff[CacheNode]
        /\ clock - seen_messages[CacheNode][id] = SEEN_EXPIRY_SEC

\* ================================================ claims on the base station
\* the step is one iteration of the accept loop
BaseStep == uplink_q # <<>> /\ uplink_q' = Tail(uplink_q)

\* C7: for one source node, starting with no entry: the first should_alert
\* call returns True, and a call made less than ALERT_COOLDOWN_SECONDS after
\* the last call that returned True returns False, so True is returned again
\* only once the window has elapsed since the last True.
C7_CooldownPerSource ==
    [][(BaseStep /\ h_base_last'.alerted # "none") =>
         LET src == Get(h_base_last'.msg, "src", "unknown")
             ret == h_base_last'.alerted = "True"
         IN /\ src \notin DOMAIN h_last_true => ret
            /\ (src \in DOMAIN h_last_true
                  /\ clock - h_last_true[src] < ALERT_COOLDOWN_SECONDS) => ~ret
            /\ ret => h_last_true'[src] = clock
            /\ ~ret => h_last_true' = h_last_true
      ]_vars

\* a call inside the window of an earlier True return was answered False
C7_Witness ==
    LET src == Get(h_base_last.msg, "src", "unknown")
    IN /\ h_base_last.alerted = "False"
       /\ src \in DOMAIN h_last_true
       /\ clock - h_last_true[src] > 0
       /\ clock - h_last_true[src] < ALERT_COOLDOWN_SECONDS

\* C8: two runs get the same should_alert(node) calls at the same times for
\* every node but PairNodeA and differ in their should_alert(PairNodeA)
\* calls: each common call returns the same value in both runs, and the
\* entries of all other nodes are the same in both tables.
C8_CooldownIndependent ==
    /\ pair_ret.run1 = pair_ret.run2
    /\ \A b \in SrcIds \ {PairNodeA} :
          /\ (b \in DOMAIN last_alert_times) <=> (b \in DOMAIN run2_alert_times)
          /\ b \in DOMAIN last_alert_times =>
                last_alert_times[b] = run2_alert_times[b]

\* PairNodeA has an entry in the first run only, and a call for another node
\* was suppressed in both runs
C8_Witness ==
    /\ PairNodeA \in DOMAIN last_alert_times
    /\ PairNodeA \notin DOMAIN run2_alert_times
    /\ pair_ret.node \in SrcIds
    /\ pair_ret.run1 = FALSE /\ pair_ret.run2 = FALSE

\* C9: for every alert message the base station handles (risk a number or
\* absent, as the wire format has it), handle_message builds one incident
\* and makes one submission attempt, whether should_alert returned True or
\* False; the incident carries the id and the source of the message, and
\* its content equals the content submitted when the same message was
\* handled with should_alert True.
C9_IncidentAlwaysSubmitted ==
    (h_base_last.handled /\ IsAlert(h_base_last.msg)) =>
        /\ Len(h_base_last.submitted) = 1
        /\ h_base_last.submitted[1].incidentId = h_base_last.msg.id
        /\ h_base_last.submitted[1].source.originNodeId = h_base_last.msg.src
        /\ h_base_last.msg \in DOMAIN h_content =>
              Content(h_base_last.submitted[1]) = h_content[h_base_last.msg]

\* a message that was announced before is handled again during the cooldown
C9_Witness ==
    /\ h_base_last.handled
    /\ h_base_last.alerted = "False"
    /\ h_base_last.msg \in DOMAIN h_content
    /\ Len(h_base_last.submitted) = 1

\* the severities computed so far for sev_risk
SeveritiesOut == {sev_out.api, sev_out.mongo} \ {0}

\* C10: for a risk r = sev_risk/RiskScale in [0,1] the severity of both base
\* stations is an integer of 1..10 and is floor(10 r) clamped to 1..10:
\* 1 when 10 r < 1, and otherwise the s with s <= 10 r < s + 1; so r = 0
\* gives 1, r = 0.85 gives 8 and r = 1 gives 10.
C10_SeverityTruncates ==
    \A sv \in SeveritiesOut :
        /\ sv \in 1..10
        /\ \/ sev_risk * 10 < RiskScale /\ sv = 1
           \/ sv * RiskScale <= sev_risk * 10 /\ sev_risk * 10 < (sv + 1) * RiskScale
        /\ sev_risk = 0 => sv = 1
        /\ sev_risk * 100 = 85 * RiskScale => sv = 8
        /\ sev_risk = RiskScale => sv = 10

\* both base stations have mapped the risk 0.85 to the severity 8
C10_Witness ==
    /\ sev_risk * 100 = 85 * RiskScale
    /\ sev_out = [api |-> 8, mongo |-> 8]

\* ================================================== claims, second series
\* the hops of path are one per element of the first Len(path) elements of
\* route, in route order, the i-th (counted from 0) with hopIndex i
HopsFollowRoute(path, route) ==
    /\ Len(path) <= Len(route)
    /\ \A i \in 1..Len(path) :
          /\ path[i].hopIndex = i - 1
          /\ path[i].nodeId = route[i]

\* C11: the incident the base station submits for an alert that came up
\* through the mesh has one traversal hop per element of the message's
\* route, in route order, the i-th with hopIndex = i (from 0) and nodeId =
\* route[i], duplicates kept; route [Sentry_001, Relay_001] gives
\* [{0, Sentry_001}, {1, Relay_001}].  For the incident stored by
\* mesh_base_station_mongo_direct this is the path once processing is
\* completed; while it is built it is a prefix of that path.
C11_TraversalPathFollowsRoute ==
    (h_base_last.handled /\ IsAlert(h_base_last.msg)) =>
        LET msg == h_base_last.msg
        IN /\ base_variant = "api" => Len(h_base_last.submitted) = 1
           /\ \A k \in 1..Len(h_base_last.submitted) :
                 LET path == h_base_last.submitted[k].traversalPath
                 IN /\ Len(path) = Len(msg.route)
                    /\ HopsFollowRoute(path, msg.route)
                    /\ msg.route = <<"Sentry_001", "Relay_001">> =>
                          path = <<[hopIndex |-> 0, nodeId |-> "Sentry_001"],
                                   [hopIndex |-> 1, nodeId |-> "Relay_001"]>>
           /\ (base_variant = "mongo" /\ h_base_last.stored) =>
                 LET doc == mongo_incidents[msg.id]
                 IN /\ HopsFollowRoute(doc.traversalPath, msg.route)
                    /\ doc.processingStatus = "completed" =>
                          Len(doc.traversalPath) = Len(msg.route)

\* an alert of the sentry came up through both relays and the incident
\* submitted for it has three hops
C11_Witness ==
    /\ h_base_last.handled
    /\ h_base_last.msg.src \in Sentries
    /\ Len(h_base_last.msg.route) = 3
    /\ Len(h_base_last.submitted) = 1
    /\ Len(h_base_last.submitted[1].traversalPath) = 3

\* C12: when handle_message of a relay forwards an accepted message (it
\* calls send_raw for the copy fwd), the uplink of the same copy is attempted
\* whether the broadcast send succeeded or failed, and the broadcast send has
\* been made whether the uplink succeeds or fails.
C12_BroadcastAndUplinkIndependent ==
    [][\A n \in Relays :
         /\ h_rebroadcasts'[n] # h_rebroadcasts[n] =>
               /\ listen_pc'[n] = "uplink"
               /\ \E m \in Taken(n) : listen_fwd'[n] = Fwd(n, m)
         /\ (listen_pc[n] = "uplink" /\ listen_pc'[n] = "recv") =>
               h_rebroadcasts[n][listen_fwd[n].id] >= 1
      ]_vars

\* the base station takes the next connection
BaseHandles ==
    \/ \E apiOk \in BOOLEAN : BaseAccept(apiOk)
    \/ \E dbAvail \in BOOLEAN, dbOps \in 0..(MaxHops + 1) : BaseAcceptMongo(dbAvail, dbOps)

\* C13: no transport failure stops a loop: a sentry that runs its poll loop
\* still runs it after every step (a failed broadcast included), a relay
\* that is in its receive loop stays in it after a failed broadcast or
\* uplink, and the base station accepts the next waiting connection
\* whatever became of the submissions before (as long as the number of
\* alert threads followed here is not exhausted).
C13_LoopsSurviveTransportFailure ==
    [][/\ \A s \in Sentries : sentry_pc[s] = "run" => sentry_pc'[s] = "run"
       /\ \A n \in Relays :
             listen_pc[n] \in {"recv", "uplink"} => listen_pc'[n] \in {"recv", "uplink"}
       /\ (uplink_q # <<>> /\ alert_threads < MaxAlertThreads) => ENABLED BaseHandles
      ]_vars

\* relay n has broadcast a message with this id: it originated it with
\* send_new, or handle_message called send_raw for a copy of it
HasBroadcast(n, id) ==
    \/ id \in DOMAIN h_orig /\ h_orig[id].src = n
    \/ h_rebroadcasts[n][id] >= 1

\* C14: a node that has broadcast a message with id X, by originating it or
\* by forwarding it, makes no send_raw call for X when it takes a copy of X
\* from its socket later, as long as X has not been evicted from its cache.
C14_NoReforwardOfOwnBroadcast ==
    [][\A n \in Relays : \A m \in Taken(n) :
         (~Malformed(m) /\ HasBroadcast(n, m.id) /\ NoEviction(n, m.id))
            => h_rebroadcasts'[n][m.id] = h_rebroadcasts[n][m.id]
      ]_vars

\* the time at which relay n accepted the message whose uplink it is
\* attempting, that is when the handle_message call of that attempt began
UplinkPendingSince(n) == h_last[n][listen_fwd[n].id]

\* C15: while an uplink attempt of relay n is pending and a datagram waits
\* in its socket, either the receive loop can take the datagram, or the
\* attempt has been pending for less than a bound after which it is aborted
\* (no bound below the MaxTime seconds that runs last here is exceeded).
C15_StuckUplinkDoesNotBlock ==
    \A n \in Relays :
        (listen_pc[n] = "uplink" /\ inbox[n] # {}) =>
            \/ ENABLED (\E m \in inbox[n], bOk \in BOOLEAN : ListenReceive(n, m, bOk))
            \/ clock - UplinkPendingSince(n) < MaxTime

PayloadType(msg) ==
    IF "payload" \in DOMAIN msg /\ "type" \in DOMAIN msg.payload
    THEN msg.payload.type
    ELSE "none"

\* C17: when the base station handles a message whose payload type is not
\* "alert" (a message without payload included), nothing is announced, no
\* incident is built, submitted or stored, and the cooldown table is left
\* as it was.
C17_NonAlertDiscarded ==
    [][(BaseStep /\ PayloadType(Head(uplink_q)) # "alert") =>
          /\ UNCHANGED <<last_alert_times, h_last_true, alert_threads,
                         h_content, mongo_incidents>>
          /\ h_base_last'.alerted = "none"
          /\ h_base_last'.submitted = <<>>
          /\ ~h_base_last'.stored
      ]_vars

\* a message without payload has been handled while the cooldown table had
\* an entry and an alert thread was running
C17_Witness ==
    /\ h_base_last.handled
    /\ "payload" \notin DOMAIN h_base_last.msg
    /\ last_alert_times # EmptyDict
    /\ alert_threads > 0

\* C18: annunciation is fire-and-forget: the handler that starts an alert
\* thread goes on to build and submit the incident, and while alert threads
\* are still running (they may never finish) the base station still accepts
\* the next waiting connection (as long as the number of alert threads
\* followed here is not exhausted).
C18_AnnunciationFireAndForget ==
    /\ (alert_threads > 0 /\ alert_threads < MaxAlertThreads /\ uplink_q # <<>>)
          => ENABLED BaseHandles
    /\ (h_base_last.handled /\ h_base_last.alerted = "True" /\ base_variant = "api")
          => Len(h_base_last.submitted) = 1

\* an alert thread started for an earlier connection is still running and
\* the base station has handled a later alert, suppressed by the cooldown,
\* and submitted its incident
C18_Witness ==
    /\ alert_threads > 0
    /\ h_base_last.handled
    /\ h_base_last.alerted = "False"
    /\ Len(h_base_last.submitted) = 1
    /\ uplink_q # <<>>

\* C19: a failed submission concerns its own message only: the base
\* station accepts the next waiting connection whatever became of the
\* submissions before, a handler submits at most the incident of the message
\* it handles (never one that failed earlier), and no message is put back
\* into a queue.
C19_FailedSubmissionNotRetried ==
    [][/\ uplink_q # <<>> => ENABLED BaseHandles
       /\ BaseStep =>
             /\ Len(h_base_last'.submitted) <= 1
             /\ \A k \in 1..Len(h_base_last'.submitted) :
                   h_base_last'.submitted[k] = BuildIncident(Head(uplink_q))
             /\ h_base_last'.msg = Head(uplink_q)
      ]_vars

\* the submission of the last incident failed and the next connection waits
C19_Witness ==
    /\ h_base_last.handled
    /\ Len(h_base_last.submitted) = 1
    /\ ~h_base_last.stored
    /\ uplink_q # <<>>
    /\ Head(uplink_q) # h_base_last.msg

\* C20: a step in which a node originates a message with send_new takes no
\* part in acceptance: the message gets an id never used before, the route
\* [own node id] and the ttl given (TTL_DEFAULT when none is given, as for
\* every alert), it goes out as one broadcast datagram (or none when the
\* send fails), send_new neither rebroadcasts nor uplinks it, and the caches
\* and the record of should_accept calls are left as they were.
C20_OriginationBypassesDedup ==
    [][next_id' # next_id =>
         LET msg == h_orig'[next_id']
         IN /\ next_id' \notin DOMAIN h_orig
            /\ \A n \in Relays : ~InSeen(n, next_id')
            /\ msg.id = next_id'
            /\ msg.route = <<msg.src>>
            /\ msg.ttl \in (0..MaxTTL) \cup {TTL_DEFAULT}
            /\ IsAlert(msg) => msg.ttl = TTL_DEFAULT
            /\ \A r \in Relays : Arrived(r) \subseteq {msg}
            /\ \A r1 \in Relays, r2 \in Relays : Arrived(r1) = Arrived(r2)
            /\ \A k \in 1..Len(uplink_q') : uplink_q'[k] # msg
            /\ UNCHANGED <<seen_messages, seen_lock, h_live, h_total, h_last,
                           h_evicted, h_rebroadcasts>>
      ]_vars

\* a relay has originated a message that waits in every socket, its own
\* included, and its cache holds no entry for it
C20_Witness ==
    \E id \in DOMAIN h_orig :
        /\ h_orig[id].src \in Relays
        /\ \A r \in Relays : h_orig[id] \in inbox[r]
        /\ ~InSeen(h_orig[id].src, id)
        /\ listen_pc[h_orig[id].src] = "recv"

\* C21: an alert message that lacks its id or its src is reported as
\* malformed by the base station: once it has been handled, no incident
\* built from it has been passed to the backend or stored, and none has
\* taken a stand-in value ("unknown", None, a generated id) for the field.
C21_MalformedAlertNotTransformed ==
    (/\ h_base_last.handled
     /\ PayloadType(h_base_last.msg) = "alert"
     /\ ("id" \notin DOMAIN h_base_last.msg \/ "src" \notin DOMAIN h_base_last.msg))
       => /\ h_base_last.submitted = <<>>
          /\ ~h_base_last.stored
          /\ \A k \in DOMAIN mongo_incidents :
                 /\ mongo_incidents[k].originNodeId # "None"
                 /\ k \in 1..(MaxMsgs + 2)

\* C22: each inbound connection is handled in a task of its own: while the
\* base station is still handling one accepted connection and another
\* connection waits, sock.accept() can return for the one that waits.
C22_AcceptWhileHandling ==
    (base_pc = "handling" /\ Len(uplink_q) > 1) => ENABLED SockAccept

\* C28: the base station never has more than one accepted connection open,
\* sock.accept() returns only while none is open, and the iteration that
\* serves a connection takes exactly that one connection off the port and
\* leaves it closed, whatever it met: a message, an empty read, a receive
\* timeout, bytes that do not parse, or an error raised while handling.
C28_ConnectionClosedBeforeNextAccept ==
    [][/\ open_conns' <= 1
       /\ open_conns' > open_conns => open_conns = 0
       /\ (uplink_q # <<>> /\ Len(uplink_q') < Len(uplink_q)) =>
             /\ uplink_q' = Tail(uplink_q)
             /\ h_base_last'.msg = Head(uplink_q)
             /\ WireOutcome(Head(uplink_q)) \in
                   {"message", "empty", "timeout", "unparseable", "nondict"}
             /\ open_conns' = 0
             /\ base_pc' = "accept"
      ]_vars

\* a connection whose bytes did not parse has been served and closed while
\* the next connection waits to be accepted
C28_Witness ==
    /\ h_base_last.msg = [wire |-> "unparseable"]
    /\ open_conns = 0
    /\ base_pc = "accept"
    /\ uplink_q # <<>>

\* ================================================ claims on relay input
\* the datagram is not JSON, or has no id, an empty id or no src
MalformedInput(m) ==
    \/ "wire" \in DOMAIN m
    \/ "id" \notin DOMAIN m
    \/ m.id = 0
    \/ "src" \notin DOMAIN m

\* C23: when a malformed datagram leaves the socket of a relay, no cache
\* changes, no acceptance is counted, nothing is broadcast, no uplink is
\* tried or delivered, and the relay is where it was in its receive loop,
\* ready for the next datagram.
C23_MalformedDropped ==
    [][\A n \in Relays : \A m \in Taken(n) :
          MalformedInput(m) =>
             /\ UNCHANGED <<seen_messages, h_total, h_live, h_last>>
             /\ \A r \in Relays : Arrived(r) = {}
             /\ UNCHANGED <<h_rebroadcasts, h_uplinks, uplink_q, listen_fwd>>
             /\ listen_pc' = listen_pc
             /\ listen_pc'[n] # "crashed"
      ]_vars

\* a listen loop has dropped bytes that are not JSON; no cache holds
\* anything, and the next datagram waits in a socket
C23_Witness ==
    /\ h_dropped = [wire |-> "notjson"]
    /\ \A n \in Relays : seen_messages[n] = EmptyDict /\ listen_pc[n] = "recv"
    /\ uplink_q = <<>>
    /\ \E n \in Relays : inbox[n] # {}

\* C25: when a relay accepts a message whose ttl is 0 or less, or that has
\* no ttl field, the id is recorded in its cache with the current time, the
\* message is delivered to the relay itself only: nothing is broadcast, no
\* uplink is tried or delivered, and the relay stays in its receive loop.
C25_TerminalNotForwarded ==
    [][\A n \in Relays : \A m \in Taken(n) :
          (/\ ~MalformedInput(m)
           /\ h_total'[n][m.id] # h_total[n][m.id]
           /\ ("ttl" \notin DOMAIN m \/ m.ttl <= 0)) =>
             /\ m.id \in DOMAIN seen_messages'[n]
             /\ seen_messages'[n][m.id] = clock
             /\ \A r \in Relays : Arrived(r) = {}
             /\ UNCHANGED <<h_rebroadcasts, h_uplinks, uplink_q, listen_fwd>>
             /\ listen_pc[n] = "recv" /\ listen_pc' = listen_pc
      ]_vars

\* a relay has accepted a message without ttl or with a negative ttl (the
\* only well-formed messages with id 1 here): it is in the cache, and the
\* relay has neither broadcast nor uplinked anything
C25_Witness ==
    \E n \in Relays :
        /\ InSeen(n, 1)
        /\ h_total[n][1] = 1
        /\ \A id \in MsgIds : h_rebroadcasts[n][id] = 0 /\ h_uplinks[n][id] = 0
        /\ inbox[n] = {}
        /\ listen_pc[n] = "recv"

\* C24: when a relay takes a copy of an id that is in its cache, nothing
\* changes but the socket: no cache entry is written, nothing is broadcast,
\* no uplink is tried or delivered. Hence the timestamp of every entry is
\* the time of the acceptance that created it, and a cleanup pass that
\* reads the clock more than SEEN_EXPIRY_SEC after that acceptance removes
\* the entry, however many duplicates have arrived since.
C24_DuplicateHasNoEffect ==
    [][\A n \in Relays :
         /\ \A m \in Taken(n) :
               InSeen(n, m.id) =>
                  /\ UNCHANGED <<seen_messages, h_total, h_live, h_last>>
                  /\ \A r \in Relays : Arrived(r) = {}
                  /\ UNCHANGED <<h_rebroadcasts, h_uplinks, uplink_q, listen_pc,
                                 listen_fwd>>
         /\ \A id \in DOMAIN seen_messages'[n] :
               seen_messages'[n][id] = h_last'[n][id]
         /\ \A id \in DOMAIN seen_messages[n] :
               (/\ clock - h_last[n][id] > SEEN_EXPIRY_SEC
                /\ cleanup_pc[n] = "cutoff" /\ LockFree(n))
                  => ENABLED (CleanupPass(n, clock) /\ ~InSeen(n, id)')
      ]_vars

\* a duplicate of an id has been dropped, no relay has evicted the id, and
\* every relay still holds the entry of its one acceptance, now exactly
\* SEEN_EXPIRY_SEC old or older
C24_Witness ==
    \E id \in MsgIds :
        /\ h_dropped = [duplicate |-> id]
        /\ \A n \in Relays :
              /\ InSeen(n, id)
              /\ h_total[n][id] = 1
              /\ clock - seen_messages[n][id] >= SEEN_EXPIRY_SEC
              /\ seen_messages[n][id] = h_last[n][id]

\* ========================================== claims on the cooldown decision
\* what a should_alert(src) call made in this step did, given whether the
\* cooldown counts as over: True and the entry of src set to now, or False
\* and the table as it was
ShouldAlertDid(src, over) ==
    IF src \notin DOMAIN last_alert_times \/ over
    THEN /\ h_base_last'.alerted = "True"
         /\ last_alert_times' = DictSet(last_alert_times, src, clock)
    ELSE /\ h_base_last'.alerted = "False"
         /\ last_alert_times' = last_alert_times

\* C26: should_alert(src) returns True and sets the entry of src to now if
\* and only if src has no entry or more than ALERT_COOLDOWN_SECONDS have
\* passed since its entry; otherwise it returns False and the table is
\* unchanged.
C26_CooldownStrictlyExceeded ==
    [][(BaseStep /\ h_base_last'.alerted # "none") =>
          LET src == h_base_last'.msg.src
          IN ShouldAlertDid(src, src \in DOMAIN last_alert_times
                                  /\ clock - last_alert_times[src] > ALERT_COOLDOWN_SECONDS)
      ]_vars

\* C26 as amended: should_alert(src) returns True and sets the entry of src
\* to now if and only if src has no entry or at least
\* ALERT_COOLDOWN_SECONDS have passed since its entry; otherwise it returns
\* False and the table is unchanged.
C26_CooldownReached ==
    [][(BaseStep /\ h_base_last'.alerted # "none") =>
          LET src == h_base_last'.msg.src
          IN ShouldAlertDid(src, src \in DOMAIN last_alert_times
                                  /\ clock - last_alert_times[src] >= ALERT_COOLDOWN_SECONDS)
      ]_vars

\* one source only has an entry, should_alert has returned True twice (both
\* alert threads still run), the second time just now at time
\* ALERT_COOLDOWN_SECONDS: the first True was at time 0, exactly the
\* cooldown window earlier
C26_Witness ==
    /\ h_base_last.alerted = "True"
    /\ DOMAIN last_alert_times = {h_base_last.msg.src}
    /\ clock = ALERT_COOLDOWN_SECONDS
    /\ last_alert_times[h_base_last.msg.src] = clock
    /\ alert_threads = 2

\* C27: per relay and id, handle_message calls send_raw at most once and
\* forward_to_laptop at most once per acceptance, and an id is accepted at
\* most once between two evictions; this holds whether or not the sends
\* succeed: the id is in the cache when send_raw is called and stays there,
\* a copy of an id that is in the cache triggers no send, and after an
\* uplink attempt, failed or not, the relay holds no copy to send again.
C27_OneSendPerAcceptance ==
    [][\A n \in Relays :
         /\ \A id \in MsgIds :
               /\ h_live'[n][id] <= 1
               /\ h_rebroadcasts'[n][id] <= h_total'[n][id]
               /\ h_uplinks'[n][id] <= h_rebroadcasts'[n][id]
               /\ NoEviction(n, id)' =>
                     h_rebroadcasts'[n][id] <= 1 /\ h_uplinks'[n][id] <= 1
               /\ h_rebroadcasts'[n][id] > h_rebroadcasts[n][id] =>
                     /\ h_total'[n][id] = h_total[n][id] + 1
                     /\ InSeen(n, id)'
               /\ h_uplinks'[n][id] > h_uplinks[n][id] =>
                     /\ listen_pc'[n] = "recv"
                     /\ listen_fwd'[n] = EmptyDict
                     /\ uplink_q' \in {uplink_q, Append(uplink_q, listen_fwd[n])}
         /\ \A m \in Taken(n) :
               InSeen(n, m.id) => UNCHANGED <<h_rebroadcasts, h_uplinks, uplink_q>>
      ]_vars

\* a relay's broadcast of an id failed, another relay's uplink attempt for
\* the id failed, both still hold the id, a duplicate has been dropped
\* since, and nothing more is on its way
C27_Witness ==
    \E id \in MsgIds, n1 \in Relays, n2 \in Relays :
        /\ n1 # n2
        /\ h_rebroadcasts[n1][id] = 1 /\ h_uplinks[n1][id] = 0
        /\ h_rebroadcasts[n2][id] = 1 /\ h_uplinks[n2][id] = 1
        /\ uplink_q = <<>>
        /\ h_dropped = [duplicate |-> id]
        /\ \A n \in Relays : /\ InSeen(n, id) /\ NoEviction(n, id)
                              /\ listen_pc[n] = "recv" /\ inbox[n] = {}

\* ============================================ claims on the forwarded copy
\* C29: the copy a relay broadcasts for a received message has the keys of
\* the message (plus ttl and route) and the same value under every key but
\* ttl and route; the copy it keeps for the uplink is that same copy, and
\* the uplink delivers it as it is; the received message itself is not
\* altered: where it still waits in another socket it is what it was.
C29_ForwardKeepsFields ==
    [][\A n \in Relays :
         /\ \A m \in Taken(n) : \A c \in Arrived(n) :
               /\ DOMAIN c = (DOMAIN m) \cup {"ttl", "route"}
               /\ \A k \in (DOMAIN m) \ {"ttl", "route"} : c[k] = m[k]
               /\ c.id = m.id /\ c.src = m.src /\ c.src_location = m.src_location
               /\ c.ts = m.ts /\ c.payload = m.payload
               /\ listen_fwd'[n] = c
               /\ \A r \in Relays : c \in inbox'[r]
               /\ \A r \in Relays \ {n} : m \in inbox[r] => m \in inbox'[r]
         /\ (listen_pc[n] = "uplink" /\ listen_pc'[n] = "recv") =>
               uplink_q' \in {uplink_q, Append(uplink_q, listen_fwd[n])}
      ]_vars

\* a copy forwarded by two relays has been delivered to the base station
\* with the id, source, location, time and payload of the original, and
\* the identical copy waits in a broadcast socket
C29_Witness ==
    \E k \in 1..Len(uplink_q) :
        LET c == uplink_q[k]
        IN /\ c.id \in DOMAIN h_orig
           /\ Len(c.route) = 3
           /\ c.src = h_orig[c.id].src
           /\ c.src_location = h_orig[c.id].src_location
           /\ c.ts = h_orig[c.id].ts
           /\ c.payload = h_orig[c.id].payload
           /\ \E r \in Relays : c \in inbox[r]

\* the copy belongs to a message send_new originated with ttl T, and its
\* ttl and route agree with T
TtlRouteBalanced(c) ==
    LET T == h_orig[c.id].ttl
    IN /\ c.ttl + Len(c.route) = T + 1
       /\ 0 <= c.ttl /\ c.ttl <= T
       /\ Len(c.route) <= T + 1

\* C30: every copy of a message originated by send_new with ttl = T that
\* waits in a broadcast socket, is held by a relay for the uplink, or has
\* been delivered to the base station has ttl + length(route) = T + 1 and
\* 0 <= ttl <= T, so its route has at most T + 1 entries.
C30_TtlPlusRouteLength ==
    /\ \A n \in Relays : \A c \in inbox[n] :
          c.id \in DOMAIN h_orig /\ TtlRouteBalanced(c)
    /\ \A n \in Relays :
          listen_pc[n] = "uplink" =>
             listen_fwd[n].id \in DOMAIN h_orig /\ TtlRouteBalanced(listen_fwd[n])
    /\ \A k \in 1..Len(uplink_q) :
          uplink_q[k].id \in DOMAIN h_orig => TtlRouteBalanced(uplink_q[k])

\* a message originated with ttl = MaxTTL has been forwarded MaxTTL times:
\* the copy with ttl 0 and MaxTTL + 1 route entries has reached the base
\* station and waits in a broadcast socket
C30_Witness ==
    \E k \in 1..Len(uplink_q) :
        LET c == uplink_q[k]
        IN /\ c.id \in DOMAIN h_orig
           /\ h_orig[c.id].ttl = MaxTTL
           /\ c.ttl = 0
           /\ Len(c.route) = MaxTTL + 1
           /\ \E n \in Relays : c \in inbox[n]

====
